---- MODULE Spec2Model ----
(***************************************************************************)
(* A model of the Valetudo web client's map widgets.                       *)
(*                                                                         *)
(* VacuumMap (src/client/src/index.js) is a canvas element that keeps an   *)
(* affine transform (scale and translation, no rotation), an ordered list  *)
(* of location overlays (GotoPoint, Zone), the pan / pinch trackers and    *)
(* two raster layers.  Every event handler runs to completion, so each     *)
(* handler is one action.                                                  *)
(*                                                                         *)
(* JavaScript numbers are modelled as exact rationals [n, d] in lowest     *)
(* terms with d > 0, so that Math.floor, Math.min and the divisions of     *)
(* the code keep their meaning on non-integer and negative values.         *)
(*                                                                         *)
(* The modules locations.js, tracked-canvas.js, path-drawer.js and         *)
(* touch-handling.js are imported by index.js but are not part of the      *)
(* sources at hand; the little of them that is needed is modelled from the *)
(* specification (see MODEL_MAP.json).  What an overlay's tap / translate  *)
(* handler answers depends on hit-test constants that the specification    *)
(* leaves open, so an answer is a nondeterministic choice among the shapes *)
(* the handler interface allows.                                           *)
(***************************************************************************)
EXTENDS Integers, Sequences, FiniteSets, TLC

VARIABLES
    inited,           \* this.redrawCanvas is set (_initCanvas has run)
    width, height,    \* this.width, this.height
    box,              \* data.image position and dimensions seen by _initCanvas
    T,                \* the canvas context's transform [a, d, e, f]
    pathScale,        \* the factor last given to pathDrawer.scale
    locations,        \* this.locations
    lastX, lastY,     \* closure variables of _initCanvas
    dragStart,        \* closure variable: [st: "undefined" | "null" | "set", x, y]
    lastScaleFactor,  \* closure variable
    frame,            \* number of the last data frame handed to the widget
    layers,           \* the data frame each layer's buffer holds: [image, path]
    shown,            \* what the last redraw() composed on the canvas
    ws,               \* the live-data connection and its heartbeat timer
    rawMap,           \* the raw-map widget of Map.js and what it decoded last
    submitted,        \* the value getLocations() returned last
    probe,            \* the last conversion asked of convertToRealCoords
    pinchBase,        \* history: the pinch gesture under way and the scale it began at
    last,             \* history: what the last handler did
    wheels,           \* number of zooming wheel events handled so far
    steps             \* number of events handled so far

vars == <<inited, width, height, box, T, pathScale, locations, lastX, lastY,
          dragStart, lastScaleFactor, frame, layers, shown, ws, rawMap, submitted,
          probe, pinchBase, last, wheels, steps>>

---------------------------------------------------------------------------
(* Bounds of the model.                                                    *)

MaxEvents == 4
MaxLocations == 2
MaxWheel == 1

---------------------------------------------------------------------------
(* Exact rational arithmetic standing for JavaScript's number arithmetic.  *)

Abs(n) == IF n < 0 THEN -n ELSE n

RECURSIVE Gcd(_, _)
Gcd(a, b) == IF b = 0 THEN a ELSE Gcd(b, a % b)

Lcm(a, b) == (a \div Gcd(a, b)) * b

\* n / d in lowest terms, d # 0
Rat(n, d) ==
    LET g == Gcd(Abs(n), Abs(d))
        s == IF d < 0 THEN -1 ELSE 1
    IN  [n |-> s * (n \div g), d |-> s * (d \div g)]

I(n) == [n |-> n, d |-> 1]

RAdd(p, q) ==
    LET l == Lcm(p.d, q.d)
    IN  Rat(p.n * (l \div p.d) + q.n * (l \div q.d), l)

RNeg(p) == [n |-> -p.n, d |-> p.d]

RSub(p, q) == RAdd(p, RNeg(q))

RMul(p, q) ==
    LET g1 == Gcd(Abs(p.n), q.d)
        g2 == Gcd(Abs(q.n), p.d)
    IN  [n |-> (p.n \div g1) * (q.n \div g2), d |-> (p.d \div g2) * (q.d \div g1)]

\* p / q, q # 0
RDiv(p, q) == RMul(p, Rat(q.d, q.n))

RLe(p, q) ==
    LET l == Lcm(p.d, q.d)
    IN  p.n * (l \div p.d) <= q.n * (l \div q.d)

RLt(p, q) == RLe(p, q) /\ p # q

\* Math.min, Math.max
RMin(p, q) == IF RLe(p, q) THEN p ELSE q

RMax(p, q) == IF RLe(p, q) THEN q ELSE p

\* Math.floor: the greatest integer <= p
RFloor(p) == p.n \div p.d

\* Math.pow(b, k) for an integer exponent k
RECURSIVE RPow(_, _)
RPow(b, k) ==
    IF k = 0 THEN I(1)
    ELSE IF k < 0 THEN RDiv(I(1), RPow(b, -k))
    ELSE RMul(b, RPow(b, k - 1))

IMin(a, b) == IF a <= b THEN a ELSE b

IMax(a, b) == IF a <= b THEN b ELSE a

---------------------------------------------------------------------------
(* The canvas transform.  Only ctx.scale and ctx.translate are ever        *)
(* applied, so the matrix is (a 0 0 d e f).                                *)

Identity == [a |-> I(1), d |-> I(1), e |-> I(0), f |-> I(0)]

\* ctx.scale(sx, sy): post-multiplies by a scaling
CtxScale(m, sx, sy) == [m EXCEPT !.a = RMul(m.a, sx), !.d = RMul(m.d, sy)]

\* ctx.translate(dx, dy): post-multiplies by a translation
CtxTranslate(m, dx, dy) ==
    [m EXCEPT !.e = RAdd(m.e, RMul(m.a, dx)), !.f = RAdd(m.f, RMul(m.d, dy))]

\* ctx.transformedPoint(x, y): the screen point through the inverse matrix
transformedPoint(m, x, y) ==
    [x |-> RDiv(RSub(x, m.e), m.a), y |-> RDiv(RSub(y, m.f), m.d)]

\* ctx.getScaleFactor2d(): the magnitude of the linear part on each axis
getScaleFactor2d(m) ==
    << IF m.a.n < 0 THEN RNeg(m.a) ELSE m.a, IF m.d.n < 0 THEN RNeg(m.d) ELSE m.d >>

\* the canvas sits at the top left corner of the page (its style sheet)
RectLeft == 0
RectTop == 0

relativeCoordinates(p) == [x |-> RSub(p.x, I(RectLeft)), y |-> RSub(p.y, I(RectTop))]

---------------------------------------------------------------------------
(* Conversion to the millimeter format of the API.                         *)

MmPerUnit == 50

\* mutant: the factor between map units and millimeters is left out
convertToRealCoordsUnscaled(c) == [x |-> RFloor(c.x), y |-> RFloor(c.y)]

convertToRealCoords(c) ==
    [x |-> RFloor(RMul(c.x, I(MmPerUnit))), y |-> RFloor(RMul(c.y, I(MmPerUnit)))]

prepareGotoCoordinatesForApi(gotoPoint) ==
    LET point == convertToRealCoords([x |-> gotoPoint.x, y |-> gotoPoint.y])
    IN  [x |-> point.x, y |-> point.y]

\* mutant: the corners are emitted in the order the zone holds them
prepareZoneCoordinatesAsHeld(zone) ==
    LET p1Real == convertToRealCoords([x |-> zone.x1, y |-> zone.y1])
        p2Real == convertToRealCoords([x |-> zone.x2, y |-> zone.y2])
    IN  << p1Real.x, p1Real.y, p2Real.x, p2Real.y >>

prepareZoneCoordinatesForApi(zone) ==
    LET p1Real == convertToRealCoords([x |-> zone.x1, y |-> zone.y1])
        p2Real == convertToRealCoords([x |-> zone.x2, y |-> zone.y2])
    IN  << IMin(p1Real.x, p2Real.x), IMin(p1Real.y, p2Real.y),
           IMax(p1Real.x, p2Real.x), IMax(p1Real.y, p2Real.y) >>

---------------------------------------------------------------------------
(* Location overlays (locations.js).                                       *)

GotoPoint(x, y) == [type |-> "GotoPoint", x |-> x, y |-> y, active |-> FALSE]

Zone(x1, y1, x2, y2) ==
    [type |-> "Zone", x1 |-> x1, y1 |-> y1, x2 |-> x2, y2 |-> y2, active |-> TRUE]

\* typeof location.translate === "function": both variants are interactive
hasTranslate(location) == location.type \in {"GotoPoint", "Zone"}

\* the overlay moved by a screen-space delta seen through the transform m
Moved(location, prev, cur, m) ==
    LET dx == RDiv(RSub(cur.x, prev.x), m.a)
        dy == RDiv(RSub(cur.y, prev.y), m.d)
    IN  IF location.type = "GotoPoint"
        THEN [location EXCEPT !.x = RAdd(@, dx), !.y = RAdd(@, dy)]
        ELSE [location EXCEPT !.x1 = RAdd(@, dx), !.y1 = RAdd(@, dy),
                              !.x2 = RAdd(@, dx), !.y2 = RAdd(@, dy)]

Answer(loc, st) == [has |-> TRUE, updatedLocation |-> loc, stopPropagation |-> st]

Absent(st) == [has |-> FALSE, updatedLocation |-> [type |-> "none"], stopPropagation |-> st]

\* location.tap(point, transform): the answers the handler may give.  A tap
\* away from the overlay passes through; a tap on it toggles its selection;
\* a tap on the delete handle of an active Zone drops updatedLocation.
tapAnswers(location) ==
    {Answer(location, FALSE)}
      \cup {Answer([location EXCEPT !.active = ~@], st) : st \in BOOLEAN}
      \cup (IF location.type = "Zone" /\ location.active
            THEN {Absent(st) : st \in BOOLEAN} ELSE {})

\* location.translate(start, prev, cur, transform): pass through, or take
\* the drag and move with it; the result type lets a Zone drop
\* updatedLocation here as well.
translateAnswers(location, prev, cur, m) ==
    {Answer(location, FALSE)}
      \cup (IF location.type = "Zone" \/ location.active
            THEN {Answer(Moved(location, prev, cur, m), TRUE)} ELSE {})
      \cup (IF location.type = "Zone" /\ location.active
            THEN {Absent(st) : st \in BOOLEAN} ELSE {})

---------------------------------------------------------------------------
(* The dispatch loops of tap and moveTranslate.  The list under iteration  *)
(* carries, with each overlay, its index in the list the event found       *)
(* (orig), so that the record of one dispatch names the overlays called.   *)

Tagged(locs) == [k \in 1..Len(locs) |-> [orig |-> k, loc |-> locs[k]]]

Untagged(work) == [k \in 1..Len(work) |-> work[k].loc]

\* Array.prototype.splice(i, 1), 1-based
SpliceOut(s, i) == SubSeq(s, 1, i - 1) \o SubSeq(s, i + 1, Len(s))

\* this.locations[i] = result.updatedLocation, or splice(i, 1)
tapStore(work, i, result) ==
    IF result.has THEN [work EXCEPT ![i].loc = result.updatedLocation]
    ELSE SpliceOut(work, i)

\* mutant: the index is not taken back after a removal
tapNextIndexNoDecrement(i, result) == i + 1

\* the index the loop looks at next: ++i, after i-- when the overlay was removed
tapNextIndex(i, result) == IF result.has THEN i + 1 ELSE (i - 1) + 1

\* mutant: stopPropagation is not looked at
tapStopsNever(result) == FALSE

\* result.stopPropagation === true
tapStops(result) == result.stopPropagation = TRUE

Called(log, entry, result) ==
    Append(log, [orig |-> entry.orig, has |-> result.has, stop |-> result.stopPropagation])

\* the runs of the loop from index i on: each is the list left, the
\* handlers called and whether the loop returned early
RECURSIVE tapLoop(_, _, _)
tapLoop(work, i, log) ==
    IF i > Len(work) THEN {[locs |-> Untagged(work), log |-> log, stopped |-> FALSE]}
    ELSE IF ~hasTranslate(work[i].loc) THEN tapLoop(work, i + 1, log)
    ELSE UNION { LET work2 == tapStore(work, i, result)
                     log2 == Called(log, work[i], result)
                 IN  IF tapStops(result)
                     THEN {[locs |-> Untagged(work2), log |-> log2, stopped |-> TRUE]}
                     ELSE tapLoop(work2, tapNextIndex(i, result), log2)
               : result \in tapAnswers(work[i].loc) }

moveStore(work, i, result) ==
    IF result.has THEN [work EXCEPT ![i].loc = result.updatedLocation]
    ELSE SpliceOut(work, i)

moveNextIndex(i, result) == IF result.has THEN i + 1 ELSE (i - 1) + 1

moveStops(result) == result.stopPropagation = TRUE

RECURSIVE moveLoop(_, _, _, _, _, _)
moveLoop(work, i, log, prev, cur, m) ==
    IF i > Len(work) THEN {[locs |-> Untagged(work), log |-> log, stopped |-> FALSE]}
    ELSE IF ~hasTranslate(work[i].loc) THEN moveLoop(work, i + 1, log, prev, cur, m)
    ELSE UNION { LET work2 == moveStore(work, i, result)
                     log2 == Called(log, work[i], result)
                 IN  IF moveStops(result)
                     THEN {[locs |-> Untagged(work2), log |-> log2, stopped |-> TRUE]}
                     ELSE moveLoop(work2, moveNextIndex(i, result), log2, prev, cur, m)
               : result \in translateAnswers(work[i].loc, prev, cur, m) }

\* mutant: the point is pushed whatever the list holds
tapDefaultAlwaysPush(locs, tappedPoint) ==
    Append(locs, GotoPoint(tappedPoint.x, tappedPoint.y))

\* mutant: the empty list is tested for with the wrong length
tapDefaultWrongLength(locs, tappedPoint) ==
    IF Len(locs) = 1 /\ locs[1].type = "GotoPoint"
    THEN [locs EXCEPT ![1] = GotoPoint(tappedPoint.x, tappedPoint.y)]
    ELSE locs

\* mutant: a GotoPoint at the head is replaced whatever follows it
tapDefaultAnyLength(locs, tappedPoint) ==
    IF Len(locs) = 0 THEN <<GotoPoint(tappedPoint.x, tappedPoint.y)>>
    ELSE IF locs[1].type = "GotoPoint"
         THEN [locs EXCEPT ![1] = GotoPoint(tappedPoint.x, tappedPoint.y)]
         ELSE locs

\* what tap does with the tapped point once no overlay stopped the event
tapDefault(locs, tappedPoint) ==
    IF Len(locs) = 0 THEN <<GotoPoint(tappedPoint.x, tappedPoint.y)>>
    ELSE IF Len(locs) = 1 /\ locs[1].type = "GotoPoint"
         THEN [locs EXCEPT ![1] = GotoPoint(tappedPoint.x, tappedPoint.y)]
         ELSE locs

---------------------------------------------------------------------------
(* The inputs the environment may hand to the widget.                      *)

\* viewport size and the image's bounding box, as the map data gives it
Configs ==
    { [w |-> 512,  h |-> 512,  left |-> 0,  top |-> 0, W |-> 1024, H |-> 1024],
      [w |-> 1024, h |-> 1024, left |-> 0,  top |-> 0, W |-> 1024, H |-> 1024],
      [w |-> 512,  h |-> 256,  left |-> 16, top |-> 8, W |-> 512,  H |-> 1024] }

P(x, y) == [x |-> I(x), y |-> I(y)]

TapPts == {P(50, 100), P(100, 200)}
PanPts == {P(0, 0), P(50, 100)}
PinchCenters == {P(512, 512)}

\* the centers of a pinch whose fingers move over the map
MovingCenters == {P(512, 512), P(256, 128)}
PinchScales == {Rat(1, 2), I(2)}
WheelPts == {P(3, 7)}
\* (wheelDelta, detail) of a wheel event
WheelInputs == { <<40, 0>>, <<0, 1>>, <<0, 0>> }

---------------------------------------------------------------------------
(* State.                                                                  *)

Unset(st) == [st |-> st, x |-> I(0), y |-> I(0)]

NoPoint == [x |-> I(0), y |-> I(0)]

NoSubmission == [zones |-> <<>>, gotoPoints |-> <<>>, made |-> FALSE]

NoProbe == [c |-> I(0), mm |-> 0, made |-> FALSE]

\* phase: "none", "started" (pinch-start seen), "moved" (pinch-moves seen),
\* "ended" (pinch-end seen), "panended" (a pan-end seen after the
\* pinch-moves); an event that pans or zooms otherwise ends it
NoBase == [phase |-> "none", scale |-> I(0)]

\* the pan gesture as the pan events tell it: under way from a pan-start to
\* the next pan-end
panAfter(kind, pan) ==
    IF kind = "panstart" THEN "dragging" ELSE IF kind = "panend" THEN "idle" ELSE pan

\* the record of one handler's run
Did(kind, pt, called, stopped, threw, rescaled, redraws) ==
    [kind |-> kind, pt |-> pt, pre |-> locations, preT |-> T, called |-> called,
     stopped |-> stopped, threw |-> threw, rescaled |-> rescaled, redraws |-> redraws,
     pan |-> panAfter(kind, last.pan), delta |-> 0]

\* the frame redraw() composes: the image layer, the path layer under its
\* counter-scale, and the overlays, all under the transform m
Composed(l, m, ps, locs) ==
    [image |-> l.image, path |-> l.path, transform |-> m, pathScale |-> ps,
     locations |-> locs]

\* the canvas before the first redraw()
Blank == Composed([image |-> 0, path |-> 0], Identity, I(1), <<>>)

\* no timer is pending (this.heartbeatTimeout undefined, or its timer has fired)
NoTimer == -1

\* this.ws before _initWebSocket has run.  timer is the time left on the
\* timer this.heartbeatTimeout names, timers the number of timers pending;
\* data is the text of the last message, cancelled whether that message
\* found a timer pending
NoSocket ==
    [conn |-> 0, timer |-> NoTimer, timers |-> 0, quiet |-> 0, heard |-> FALSE,
     msgs |-> 0, failed |-> FALSE, data |-> "none", cancelled |-> FALSE]

\* Map.prototype.transformViewportToMap(point)
transformViewportToMap(r, point) ==
    [x |-> RAdd(r.viewportPosition.x, RDiv(point.x, r.scale)),
     y |-> RAdd(r.viewportPosition.y, RDiv(point.y, r.scale))]

\* Map.prototype.updateViewport(): where and how large the map is drawn on
\* the viewport canvas, and the selected point drawn on it
updateViewport(r) ==
    [r EXCEPT !.view =
        [srcStartX |-> RMul(RMul(r.viewportPosition.x, r.scale), I(-1)),
         srcStartY |-> RMul(RMul(r.viewportPosition.y, r.scale), I(-1)),
         size |-> RMul(I(1024), r.scale),
         selectedPoint |-> r.selectedPoint]]

\* the fields and closure variables of the raw-map widget that its pointer
\* and wheel listeners read and write, and (history) whether the pointer is
\* down
Snapshot(r) ==
    [scale |-> r.scale, viewportPosition |-> r.viewportPosition,
     selectedPoint |-> r.selectedPoint, toolbar |-> r.toolbar, start |-> r.start,
     moved |-> r.moved, view |-> r.view, pointer |-> r.pointer]

\* new Map(options) in a container of w by h: resize() draws the viewport at
\* the position [512, 512], which is then moved back by half the viewport.
\* map .. made are the data given to updateMapData and what it decoded;
\* start and moved are the closure variables of the pointer listeners; ev,
\* pre, pointer, downAt, selected, events and zooms are history: the last
\* event and the state it found, the pointer as the events tell it ("up",
\* "down" since a pointerdown, "dragging" since a pointermove while down),
\* the position of the last pointerdown, whether the last event assigned
\* selectedPoint, and the numbers of events and of wheel events handled
Map(w, h) ==
    LET fields ==
          [map |-> <<>>, path |-> <<>>, hasPath |-> FALSE, pixels |-> <<>>,
           put |-> FALSE, line |-> <<>>, stroked |-> FALSE, threw |-> FALSE,
           made |-> FALSE,
           width |-> w, height |-> h, scale |-> I(1),
           viewportPosition |-> [x |-> I(512), y |-> I(512)],
           selectedPoint |-> Unset("undefined"), toolbar |-> FALSE,
           start |-> Unset("undefined"), moved |-> FALSE,
           view |-> [srcStartX |-> I(0), srcStartY |-> I(0), size |-> I(0),
                     selectedPoint |-> Unset("undefined")],
           ev |-> "constructor",
           pre |-> [scale |-> I(1), viewportPosition |-> [x |-> I(512), y |-> I(512)],
                    selectedPoint |-> Unset("undefined"), toolbar |-> FALSE,
                    start |-> Unset("undefined"), moved |-> FALSE,
                    view |-> [srcStartX |-> I(0), srcStartY |-> I(0), size |-> I(0),
                              selectedPoint |-> Unset("undefined")],
                    pointer |-> "up"],
           pointer |-> "up", downAt |-> NoPoint, selected |-> FALSE,
           events |-> 0, zooms |-> 0]
        resized == updateViewport(fields)
    IN  [resized EXCEPT !.viewportPosition =
                           [x |-> RSub(resized.viewportPosition.x, Rat(w, 2)),
                            y |-> RSub(resized.viewportPosition.y, Rat(h, 2))]]

\* the raw-map widget before any data
NoRawMap == Map(512, 512)

\* the two widgets after their construction, the raw-map widget with the
\* data that is on its way to it
Widgets(w, h, locs, raw) ==
    /\ inited = FALSE
    /\ width = w /\ height = h
    /\ box = [left |-> 0, top |-> 0, W |-> 0, H |-> 0]
    /\ T = Identity
    /\ pathScale = I(1)
    /\ locations = locs
    /\ lastX = I(0)
    /\ lastY = I(0)
    /\ dragStart = Unset("undefined")
    /\ lastScaleFactor = I(1)
    /\ frame = 0
    /\ layers = [image |-> 0, path |-> 0]
    /\ shown = Blank
    /\ ws = NoSocket
    /\ rawMap = raw
    /\ submitted = NoSubmission
    /\ probe = NoProbe
    /\ pinchBase = NoBase
    /\ last = [kind |-> "constructor", pt |-> NoPoint, pre |-> <<>>, preT |-> Identity,
               called |-> <<>>, stopped |-> FALSE, threw |-> FALSE, rescaled |-> <<>>,
               redraws |-> 0, pan |-> "idle", delta |-> 0]
    /\ wheels = 0
    /\ steps = 0

\* the state the constructor leaves in a viewport of w by h; locs is empty
\* there, and is given only to try getLocations() on lists of any content
Constructed(w, h, locs) == Widgets(w, h, locs, NoRawMap)

Init == \E c \in Configs : Constructed(c.w, c.h, <<>>)

\* mutant: the counter-scale of the path layer is left on the context
redrawKeepingCounterScale(m, ps) == CtxScale(m, RDiv(I(1), ps), RDiv(I(1), ps))

\* redraw(): the path layer is drawn under a counter-scale that is undone
redraw(m, ps) == CtxScale(CtxScale(m, RDiv(I(1), ps), RDiv(I(1), ps)), ps, ps)

\* redraw() composes the frame anew from the state the handler leaves
Redrawn == shown' = Composed(layers', T', pathScale', locations')

NotRedrawn == UNCHANGED shown

\* _initWebSocket(): the old connection is closed and a new one is opened;
\* nothing is done about the heartbeat timer
initWebSocket(w) == [w EXCEPT !.conn = w.conn + 1, !.quiet = 0, !.heard = FALSE]

\* mutant: the factor is taken from the widths alone
initialScalingFactorByWidth(w, h, boundingBox) ==
    RDiv(I(w), I(boundingBox.maxX - boundingBox.minX))

initialScalingFactor(w, h, boundingBox) ==
    RMin(RDiv(I(w), I(boundingBox.maxX - boundingBox.minX)),
         RDiv(I(h), I(boundingBox.maxY - boundingBox.minY)))

\* _initCanvas(data), run once the map data has been fetched
initCanvas ==
    /\ ~inited
    /\ \E c \in Configs :
         /\ c.w = width /\ c.h = height
         /\ LET boundingBox == [minX |-> c.left, minY |-> c.top,
                                maxX |-> c.left + c.W, maxY |-> c.top + c.H]
                s == initialScalingFactor(width, height, boundingBox)
                m == CtxTranslate(CtxScale(T, s, s),
                                  I(-boundingBox.minX), I(-boundingBox.minY))
            IN  /\ box' = [left |-> c.left, top |-> c.top, W |-> c.W, H |-> c.H]
                /\ pathScale' = s
                /\ T' = redraw(m, s)
                /\ last' = Did("init", NoPoint, <<>>, FALSE, FALSE, <<s>>, 1)
    /\ inited' = TRUE
    /\ frame' = frame + 1
    /\ layers' = [image |-> frame + 1, path |-> frame + 1]
    /\ lastX' = Rat(width, 2)
    /\ lastY' = Rat(height, 2)
    /\ lastScaleFactor' = I(1)
    /\ ws' = initWebSocket(ws)
    /\ UNCHANGED <<width, height, locations, dragStart, submitted, probe, rawMap, pinchBase,
                   wheels, steps>>
    /\ Redrawn

\* the tap listener
tap ==
    /\ inited /\ steps < MaxEvents
    /\ \E tappedCoordinates \in TapPts :
         LET rel == relativeCoordinates(tappedCoordinates)
             tappedPoint == transformedPoint(T, rel.x, rel.y)
         IN  \E run \in tapLoop(Tagged(locations), 1, <<>>) :
               /\ locations' = IF run.stopped THEN run.locs
                               ELSE tapDefault(run.locs, tappedPoint)
               /\ last' = Did("tap", rel, run.log, run.stopped, FALSE, <<>>, 1)
    /\ T' = redraw(T, pathScale)
    /\ steps' = steps + 1
    /\ UNCHANGED <<inited, width, height, box, pathScale, lastX, lastY, dragStart,
                   lastScaleFactor, frame, layers, ws, submitted, probe, rawMap,
                   pinchBase, wheels>>
    /\ Redrawn

NewZone == Zone(I(480), I(480), I(550), I(550))

Deactivated(locs) == [k \in 1..Len(locs) |-> [locs[k] EXCEPT !.active = FALSE]]

\* addZone()
addZone ==
    /\ steps < MaxEvents /\ Len(locations) < MaxLocations
    /\ locations' = Append(Deactivated(locations), NewZone)
    /\ T' = IF inited THEN redraw(T, pathScale) ELSE T
    /\ last' = Did("addZone", NoPoint, <<>>, FALSE, FALSE, <<>>, IF inited THEN 1 ELSE 0)
    /\ steps' = steps + 1
    /\ UNCHANGED <<inited, width, height, box, pathScale, lastX, lastY, dragStart,
                   lastScaleFactor, frame, layers, ws, submitted, probe, rawMap,
                   pinchBase, wheels>>
    /\ IF inited THEN Redrawn ELSE NotRedrawn

Select(s, type) ==
    LET RECURSIVE Sel(_)
        Sel(k) == IF k > Len(s) THEN <<>>
                  ELSE IF s[k].type = type THEN <<s[k]>> \o Sel(k + 1) ELSE Sel(k + 1)
    IN  Sel(1)

getLocationsResult(locs) ==
    LET zs == Select(locs, "Zone")
        gs == Select(locs, "GotoPoint")
    IN  [zones |-> [k \in 1..Len(zs) |-> prepareZoneCoordinatesForApi(zs[k])],
         gotoPoints |-> [k \in 1..Len(gs) |-> prepareGotoCoordinatesForApi(gs[k])],
         made |-> TRUE]

\* getLocations()
getLocations ==
    /\ steps < MaxEvents
    /\ submitted' = getLocationsResult(locations)
    /\ last' = Did("getLocations", NoPoint, <<>>, FALSE, FALSE, <<>>, 0)
    /\ steps' = steps + 1
    /\ UNCHANGED <<inited, width, height, box, T, pathScale, locations, lastX, lastY,
                   dragStart, lastScaleFactor, frame, layers, shown, ws, probe, rawMap,
                   pinchBase, wheels>>

\* the panstart listener
startTranslate ==
    /\ inited /\ steps < MaxEvents
    /\ \E coordinates \in PanPts :
         LET rel == relativeCoordinates(coordinates)
             start == transformedPoint(T, rel.x, rel.y)
         IN  /\ lastX' = rel.x
             /\ lastY' = rel.y
             /\ dragStart' = [st |-> "set", x |-> start.x, y |-> start.y]
             /\ last' = Did("panstart", rel, <<>>, FALSE, FALSE, <<>>, 0)
    /\ steps' = steps + 1
    /\ UNCHANGED <<inited, width, height, box, T, pathScale, locations, lastScaleFactor,
                   frame, layers, shown, ws, submitted, probe, rawMap, wheels>>
    /\ pinchBase' = NoBase

\* if (dragStart): undefined and null are falsy
truthy(ds) == ds.st = "set"

\* mutant: the map is moved by the pointer's screen coordinates, not by the
\* map-space point under the pointer
panMapByScreenPoint(m, x, y, ds) ==
    CtxTranslate(m, RSub(x, ds.x), RSub(y, ds.y))

\* the pan of the whole map: the point under the pointer becomes dragStart
panMap(m, x, y, ds) ==
    LET pt == transformedPoint(m, x, y)
    IN  CtxTranslate(m, RSub(pt.x, ds.x), RSub(pt.y, ds.y))

\* the panmove listener
moveTranslate ==
    /\ inited /\ steps < MaxEvents
    /\ \E currentCoordinates \in PanPts :
         LET rel == relativeCoordinates(currentCoordinates)
             old == [x |-> lastX, y |-> lastY]
         IN  /\ lastX' = rel.x
             /\ lastY' = rel.y
             /\ IF truthy(dragStart)
                THEN \E run \in moveLoop(Tagged(locations), 1, <<>>, old, rel, T) :
                       /\ locations' = run.locs
                       /\ T' = IF run.stopped THEN redraw(T, pathScale)
                               ELSE redraw(panMap(T, rel.x, rel.y, dragStart), pathScale)
                       /\ last' = Did("panmove", rel, run.log, run.stopped, FALSE, <<>>, 1)
                ELSE /\ UNCHANGED <<locations, T>>
                     /\ last' = Did("panmove", rel, <<>>, FALSE, FALSE, <<>>, 0)
    /\ steps' = steps + 1
    /\ UNCHANGED <<inited, width, height, box, pathScale, dragStart, lastScaleFactor,
                   frame, layers, ws, submitted, probe, rawMap, wheels>>
    /\ pinchBase' = NoBase
    /\ IF truthy(dragStart) THEN Redrawn ELSE NotRedrawn

\* the panend listener
endTranslate ==
    /\ inited /\ steps < MaxEvents
    /\ dragStart' = Unset("null")
    /\ T' = redraw(T, pathScale)
    /\ last' = Did("panend", NoPoint, <<>>, FALSE, FALSE, <<>>, 1)
    /\ steps' = steps + 1
    /\ UNCHANGED <<inited, width, height, box, pathScale, locations, lastX, lastY,
                   lastScaleFactor, frame, layers, ws, submitted, probe, rawMap, wheels>>
    /\ pinchBase' = IF pinchBase.phase = "moved"
                    THEN [pinchBase EXCEPT !.phase = "panended"] ELSE NoBase
    /\ Redrawn

\* the pinchstart listener, its evt.center drawn from centers
startPinchAt(centers) ==
    /\ inited /\ steps < MaxEvents
    /\ \E center \in centers :
         LET rel == relativeCoordinates(center)
             start == transformedPoint(T, rel.x, rel.y)
         IN  /\ lastX' = rel.x
             /\ lastY' = rel.y
             /\ dragStart' = [st |-> "set", x |-> start.x, y |-> start.y]
             /\ last' = Did("pinchstart", rel, <<>>, FALSE, FALSE, <<>>, 0)
    /\ lastScaleFactor' = I(1)
    /\ pinchBase' = [phase |-> "started", scale |-> getScaleFactor2d(T)[1]]
    /\ steps' = steps + 1
    /\ UNCHANGED <<inited, width, height, box, T, pathScale, locations, frame, layers,
                   shown, ws, submitted, probe, rawMap, wheels>>

startPinch == startPinchAt(PinchCenters)

\* mutant: the context is moved to the point and back, and never scaled
scaleAboutUnscaled(m, pt, factor) ==
    CtxTranslate(CtxTranslate(m, pt.x, pt.y), RNeg(pt.x), RNeg(pt.y))

\* the scaling about the point pt (map space)
scaleAbout(m, pt, factor) ==
    CtxTranslate(CtxScale(CtxTranslate(m, pt.x, pt.y), factor, factor),
                 RNeg(pt.x), RNeg(pt.y))

\* reading dragStart.x of an undefined or null dragStart throws a TypeError
derefFails(ds) == ds.st # "set"

\* mutant: the gesture scale itself is applied at every pinch-move
pinchFactorAbsolute(scale, lsf) == scale

\* const factor = evt.scale / lastScaleFactor
pinchFactor(scale, lsf) == RDiv(scale, lsf)

\* the pinchmove listener, its evt.center drawn from centers
scalePinchAt(centers) ==
    /\ inited /\ steps < MaxEvents
    /\ \E center \in centers, scale \in PinchScales :
         LET factor == pinchFactor(scale, lastScaleFactor)
             pt == transformedPoint(T, center.x, center.y)
             m1 == scaleAbout(T, pt, factor)
             rel == relativeCoordinates(center)
         IN  /\ lastScaleFactor' = scale
             /\ lastX' = rel.x
             /\ lastY' = rel.y
             /\ IF derefFails(dragStart)
                THEN /\ T' = m1
                     /\ last' = Did("pinchmove", rel, <<>>, FALSE, TRUE, <<>>, 0)
                ELSE /\ T' = redraw(panMap(m1, rel.x, rel.y, dragStart), pathScale)
                     /\ last' = Did("pinchmove", rel, <<>>, FALSE, FALSE, <<>>, 1)
    /\ steps' = steps + 1
    /\ UNCHANGED <<inited, width, height, box, pathScale, locations, dragStart, frame,
                   layers, ws, submitted, probe, rawMap, wheels>>
    /\ pinchBase' = IF pinchBase.phase \in {"started", "moved"} /\ ~derefFails(dragStart)
                    THEN [pinchBase EXCEPT !.phase = "moved"] ELSE NoBase
    /\ IF derefFails(dragStart) THEN NotRedrawn ELSE Redrawn

scalePinch == scalePinchAt(PinchCenters)

\* the pinchend listener: rescales the path layer, then runs endTranslate
endPinch ==
    /\ inited /\ steps < MaxEvents
    /\ LET scaleX == getScaleFactor2d(T)[1]
       IN  /\ pathScale' = scaleX
           /\ T' = redraw(T, scaleX)
           /\ last' = Did("pinchend", NoPoint, <<>>, FALSE, FALSE, <<scaleX>>, 1)
    /\ dragStart' = Unset("null")
    /\ steps' = steps + 1
    /\ UNCHANGED <<inited, width, height, box, locations, lastX, lastY, lastScaleFactor,
                   frame, layers, ws, submitted, probe, rawMap, wheels>>
    /\ pinchBase' = IF pinchBase.phase = "moved"
                    THEN [pinchBase EXCEPT !.phase = "ended"] ELSE NoBase
    /\ Redrawn

\* mutant: the wheel zooms the other way
scaleFactorInverted == Rat(10, 11)

scaleFactor == Rat(11, 10)

\* evt.wheelDelta ? evt.wheelDelta / 40 : evt.detail ? -evt.detail : 0
wheelDeltaOf(wheelDelta, detail) ==
    IF wheelDelta # 0 THEN wheelDelta \div 40 ELSE IF detail # 0 THEN -detail ELSE 0

\* the mousewheel / DOMMouseScroll listener
handleScroll ==
    /\ inited /\ steps < MaxEvents
    /\ \E in \in WheelInputs, offset \in WheelPts :
         LET delta == wheelDeltaOf(in[1], in[2])
         IN  IF delta # 0
             THEN /\ wheels < MaxWheel
                  /\ LET pt == transformedPoint(T, offset.x, offset.y)
                         m1 == scaleAbout(T, pt, RPow(scaleFactor, delta))
                         scaleX == getScaleFactor2d(m1)[1]
                     IN  /\ pathScale' = scaleX
                         /\ T' = redraw(m1, scaleX)
                         /\ last' = [Did("wheel", offset, <<>>, FALSE, FALSE, <<scaleX>>, 1)
                                        EXCEPT !.delta = delta]
                  /\ wheels' = wheels + 1
                  /\ pinchBase' = NoBase
             ELSE /\ UNCHANGED <<pathScale, T, wheels, pinchBase>>
                  /\ last' = Did("wheel", offset, <<>>, FALSE, FALSE, <<>>, 0)
    /\ steps' = steps + 1
    /\ UNCHANGED <<inited, width, height, box, locations, lastX, lastY, dragStart,
                   lastScaleFactor, frame, layers, ws, submitted, probe, rawMap>>
    /\ IF last'.redraws = 1 THEN Redrawn ELSE NotRedrawn

\* the data updateMap can be given: data both renderers take, data whose
\* image part makes mapDrawer.draw fail, data whose path part makes the path
\* renderer fail
Payloads == {"good", "badImage", "badPath"}

\* updateMap fails where the first renderer fails, and does nothing after it
updateMapFails(payload) == payload # "good"

\* mutant: the path layer is tried first, and the image layer only after it
updateMapLayersPathFirst(l, f, payload) ==
    IF payload = "badPath" THEN l
    ELSE IF payload = "badImage" THEN [l EXCEPT !.path = f]
    ELSE [image |-> f, path |-> f]

\* mutant: the path of the frame is never handed to the path renderer
updateMapLayersImageOnly(l, f, payload) ==
    IF payload = "badImage" THEN l ELSE [l EXCEPT !.image = f]

\* the layers after updateMap was given the frame f: mapDrawer.draw comes
\* first, pathDrawer.setPath and pathDrawer.draw after it
updateMapLayers(l, f, payload) ==
    IF payload = "badImage" THEN l
    ELSE IF payload = "badPath" THEN [l EXCEPT !.image = f]
    ELSE [image |-> f, path |-> f]

\* updateMap(mapData), given data both renderers take
updateMap ==
    /\ steps < MaxEvents
    /\ frame' = frame + 1
    /\ layers' = updateMapLayers(layers, frame + 1, "good")
    /\ T' = IF inited THEN redraw(T, pathScale) ELSE T
    /\ last' = Did("updateMap", NoPoint, <<>>, FALSE, FALSE, <<>>, IF inited THEN 1 ELSE 0)
    /\ steps' = steps + 1
    /\ UNCHANGED <<inited, width, height, box, pathScale, locations, lastX, lastY,
                   dragStart, lastScaleFactor, ws, submitted, probe, rawMap, pinchBase, wheels>>
    /\ IF inited THEN Redrawn ELSE NotRedrawn

\* the taps, the pans, the pinches and the public functions; the wheel is
\* with the zooming events of NextRedraw
Next ==
    \/ initCanvas \/ tap \/ addZone \/ getLocations
    \/ startTranslate \/ moveTranslate \/ endTranslate
    \/ startPinch \/ scalePinch \/ endPinch
    \/ updateMap

Spec == Init /\ [][Next]_vars

---------------------------------------------------------------------------
(* The conversion functions on their own: getLocations() on lists of any   *)
(* content, and convertToRealCoords on any coordinate.                     *)

MaxNum == 15

ApiDens == {1, 3, 7, 50, 100}

ApiCoords == { Rat(n, d) : n \in -MaxNum..MaxNum, d \in ApiDens }

ZoneCorners == { Rat(-7, 3), I(0), Rat(1, 100), I(10), Rat(21, 2) }

ApiLists ==
    { <<[Zone(x1, y1, x2, y2) EXCEPT !.active = a]>> :
        x1 \in ZoneCorners, y1 \in ZoneCorners, x2 \in ZoneCorners, y2 \in ZoneCorners,
        a \in {TRUE} }
      \cup { <<GotoPoint(x, y), Zone(y, x, x, y)>> : x \in ZoneCorners, y \in ZoneCorners }

InitApi == \E locs \in ApiLists : Constructed(512, 512, locs)

InitConv == Constructed(512, 512, <<>>)

\* convertToRealCoords asked for one coordinate (on both axes)
convert ==
    /\ \E c \in ApiCoords :
         probe' = [c |-> c, mm |-> convertToRealCoords([x |-> c, y |-> c]).x, made |-> TRUE]
    /\ UNCHANGED <<inited, width, height, box, T, pathScale, locations, lastX, lastY,
                   dragStart, lastScaleFactor, frame, layers, shown, ws, rawMap, submitted,
                   pinchBase, last, wheels, steps>>

---------------------------------------------------------------------------
(* The live-data connection.  Time is counted in whole seconds; a second   *)
(* cannot pass while a timer that is due has not fired.                    *)

MaxMessages == 3
MaxConnections == 3

\* setTimeout(..., 5000)
HeartbeatSeconds == 5

\* evt.data: the empty string, text that is no JSON, or the JSON of a payload
Messages == {"", "garbage"} \cup Payloads

\* JSON.parse(evt.data) throws a SyntaxError
parseFails(data) == data = "garbage"

\* mutant: the pending timer is not cancelled
clearTimeoutForgotten(w) == w

\* clearTimeout(this.heartbeatTimeout): nothing happens where the timer has
\* fired, or where there is none
clearTimeout(w) ==
    IF w.timer = NoTimer THEN w ELSE [w EXCEPT !.timer = NoTimer, !.timers = @ - 1]

\* this.heartbeatTimeout = setTimeout(..., 5000)
setTimeout(w) == [w EXCEPT !.timer = HeartbeatSeconds, !.timers = @ + 1]

\* ws.onmessage
wsMessage ==
    /\ ws.conn > 0 /\ ws.msgs < MaxMessages
    /\ \E data \in Messages :
         LET applied == data # "" /\ ~parseFails(data)
             failed == data # "" /\ (parseFails(data) \/ updateMapFails(data))
             drawn == applied /\ ~updateMapFails(data) /\ inited
         IN  /\ ws' = [setTimeout(clearTimeout(ws)) EXCEPT
                          !.quiet = 0, !.heard = TRUE, !.msgs = ws.msgs + 1,
                          !.failed = failed, !.data = data,
                          !.cancelled = ws.timer # NoTimer]
             /\ frame' = IF applied THEN frame + 1 ELSE frame
             /\ layers' = IF applied THEN updateMapLayers(layers, frame + 1, data) ELSE layers
             /\ T' = IF drawn THEN redraw(T, pathScale) ELSE T
             /\ last' = Did("message", NoPoint, <<>>, FALSE, FALSE, <<>>,
                            IF drawn THEN 1 ELSE 0)
    /\ UNCHANGED <<inited, width, height, box, pathScale, locations, lastX, lastY,
                   dragStart, lastScaleFactor, submitted, probe, rawMap, pinchBase,
                   wheels, steps>>
    /\ IF last'.redraws = 1 THEN Redrawn ELSE NotRedrawn

\* ws.onerror
wsError ==
    /\ ws.conn > 0 /\ ws.conn < MaxConnections
    /\ ws' = initWebSocket(ws)
    /\ last' = Did("error", NoPoint, <<>>, FALSE, FALSE, <<>>, 0)
    /\ UNCHANGED <<inited, width, height, box, T, pathScale, locations, lastX, lastY,
                   dragStart, lastScaleFactor, frame, layers, shown, submitted, probe, rawMap,
                   pinchBase, wheels, steps>>

\* the callback of the heartbeat timer
heartbeatExpires ==
    /\ ws.timer = 0 /\ ws.conn < MaxConnections
    /\ ws' = initWebSocket([ws EXCEPT !.timer = NoTimer, !.timers = @ - 1])
    /\ last' = Did("timeout", NoPoint, <<>>, FALSE, FALSE, <<>>, 0)
    /\ UNCHANGED <<inited, width, height, box, T, pathScale, locations, lastX, lastY,
                   dragStart, lastScaleFactor, frame, layers, shown, submitted, probe, rawMap,
                   pinchBase, wheels, steps>>

\* a second passes
Tick ==
    /\ ws.conn > 0
    /\ ws.timer # 0
    /\ ws.quiet <= HeartbeatSeconds
    /\ ws' = [ws EXCEPT !.quiet = ws.quiet + 1,
                        !.timer = IF ws.timer = NoTimer THEN NoTimer ELSE ws.timer - 1]
    /\ UNCHANGED <<inited, width, height, box, T, pathScale, locations, lastX, lastY,
                   dragStart, lastScaleFactor, frame, layers, shown, submitted, probe, rawMap,
                   pinchBase, last, wheels, steps>>

InitWs == Constructed(512, 512, <<>>)

NextWs == initCanvas \/ wsMessage \/ wsError \/ heartbeatExpires \/ Tick

\* a timer that is due fires, and time goes on
SpecWs == InitWs /\ [][NextWs]_vars /\ WF_vars(heartbeatExpires) /\ WF_vars(Tick)

---------------------------------------------------------------------------
(* The zooming events (wheel and pinch), and redraw() on its own in the     *)
(* states they lead to.                                                    *)

\* this.redrawCanvas(): redraw() and nothing else
redrawCanvas ==
    /\ inited
    /\ T' = redraw(T, pathScale)
    /\ last' = Did("redraw", NoPoint, <<>>, FALSE, FALSE, <<>>, 1)
    /\ UNCHANGED <<inited, width, height, box, pathScale, locations, lastX, lastY,
                   dragStart, lastScaleFactor, frame, layers, ws, submitted, probe, rawMap,
                   pinchBase, wheels, steps>>
    /\ Redrawn

NextRedraw ==
    \/ initCanvas \/ addZone \/ updateMap
    \/ startPinch \/ scalePinch \/ endPinch \/ handleScroll
    \/ redrawCanvas

SpecRedraw == Init /\ [][NextRedraw]_vars

---------------------------------------------------------------------------
(* The raw-map widget (src/client/js/Map.js): the decoding of the image    *)
(* and path byte streams.  A stream is a sequence of bytes; the byte at    *)
(* offset k is its element k + 1.                                          *)

MaxRecords == 2

\* the records a sender has to send: a pixel index and three colour bytes
MapRecords ==
    { [pos |-> 0, r |-> 0, g |-> 7, b |-> 9],
      [pos |-> 66051, r |-> 4, g |-> 5, b |-> 6],
      [pos |-> 1048575, r |-> 1, g |-> 0, b |-> 2] }

\* a pair of path coordinates
PathRecords == { [x |-> 2048, y |-> 2052], [x |-> 1, y |-> 16777216] }

\* the number n as four bytes, the most significant first
uint32Bytes(n) ==
    << n \div 16777216, (n \div 65536) % 256, (n \div 256) % 256, n % 256 >>

Padding == <<0, 0, 0>>

\* a record without padding, and with the three bytes of padding after the
\* index that the specification speaks of
mapRecordBytes(rec, padded) ==
    uint32Bytes(rec.pos) \o (IF padded THEN Padding ELSE <<>>) \o <<rec.r, rec.g, rec.b>>

pathRecordBytes(rec, padded) ==
    uint32Bytes(rec.x) \o (IF padded THEN Padding ELSE <<>>)
      \o uint32Bytes(rec.y) \o (IF padded THEN Padding ELSE <<>>)

RecordLists(S) == UNION { [1..n -> S] : n \in 0..MaxRecords }

RECURSIVE Flatten(_)
Flatten(ss) == IF ss = <<>> THEN <<>> ELSE Head(ss) \o Flatten(Tail(ss))

MapStream(recs, padded) ==
    Flatten([k \in 1..Len(recs) |-> mapRecordBytes(recs[k], padded)])

PathStream(recs, padded) ==
    Flatten([k \in 1..Len(recs) |-> pathRecordBytes(recs[k], padded)])

MapStreams ==
    { MapStream(recs, padded) : recs \in RecordLists(MapRecords), padded \in BOOLEAN }

PathStreams ==
    { PathStream(recs, padded) : recs \in RecordLists(PathRecords), padded \in BOOLEAN }

\* DataView.getUint8 / getUint32 throw a RangeError on a read past the end
inRange(data, bytePos, size) == bytePos >= 0 /\ bytePos + size <= Len(data)

getUint8(data, bytePos) == data[bytePos + 1]

\* big-endian
getUint32(data, bytePos) ==
    ((data[bytePos + 1] * 256 + data[bytePos + 2]) * 256 + data[bytePos + 3]) * 256
      + data[bytePos + 4]

\* mutant: the four bytes of the number are passed, and three more
afterUint32Padded(bytePos) == (bytePos + 4) + 3

\* getUint32(bytePos++); bytePos += 3;
afterUint32(bytePos) == (bytePos + 1) + 3

\* the loop of updateMapData from the offset bytePos on: the records read,
\* and whether a read went past the end
RECURSIVE decodeMap(_, _, _)
decodeMap(data, bytePos, acc) ==
    IF ~(bytePos < Len(data)) THEN [recs |-> acc, threw |-> FALSE]
    ELSE IF ~inRange(data, bytePos, 4) THEN [recs |-> acc, threw |-> TRUE]
    ELSE LET pos == getUint32(data, bytePos)
             at == afterUint32(bytePos)
         IN  IF ~inRange(data, at, 3) THEN [recs |-> acc, threw |-> TRUE]
             ELSE decodeMap(data, at + 3,
                     Append(acc, [pos |-> pos, r |-> getUint8(data, at),
                                  g |-> getUint8(data, at + 1),
                                  b |-> getUint8(data, at + 2)]))

\* the loop of drawPath
RECURSIVE decodePath(_, _, _)
decodePath(data, bytePos, acc) ==
    IF ~(bytePos < Len(data)) THEN [recs |-> acc, threw |-> FALSE]
    ELSE IF ~inRange(data, bytePos, 4) THEN [recs |-> acc, threw |-> TRUE]
    ELSE LET x == getUint32(data, bytePos)
             at == afterUint32(bytePos)
         IN  IF ~inRange(data, at, 4) THEN [recs |-> acc, threw |-> TRUE]
             ELSE decodePath(data, afterUint32(at),
                     Append(acc, [x |-> x, y |-> getUint32(data, at)]))

\* Map.prototype.updateMapData(test), with updateViewport and drawPath that
\* it ends with; an exception leaves the canvases as they were
updateMapData ==
    /\ ~rawMap.made
    /\ LET image == decodeMap(rawMap.map, 0, <<>>)
           line == IF rawMap.hasPath /\ ~image.threw THEN decodePath(rawMap.path, 0, <<>>)
                   ELSE [recs |-> <<>>, threw |-> FALSE]
       IN  rawMap' = [rawMap EXCEPT
                        !.pixels = image.recs, !.put = ~image.threw,
                        !.line = line.recs,
                        !.stroked = rawMap.hasPath /\ ~image.threw /\ ~line.threw,
                        !.threw = image.threw \/ line.threw, !.made = TRUE,
                        !.view = IF image.threw THEN rawMap.view
                                 ELSE updateViewport(rawMap).view]
    /\ UNCHANGED <<inited, width, height, box, T, pathScale, locations, lastX, lastY,
                   dragStart, lastScaleFactor, frame, layers, shown, ws, submitted, probe,
                   pinchBase, last, wheels, steps>>

\* the widget and the data on its way to updateMapData: test.map, and
\* test.path where there is one
InitRaw ==
    \E map \in MapStreams, path \in PathStreams, hasPath \in BOOLEAN :
        /\ hasPath \/ path = <<>>
        /\ Widgets(512, 512, <<>>,
                   [NoRawMap EXCEPT !.map = map, !.path = path, !.hasPath = hasPath])

SpecRaw == InitRaw /\ [][updateMapData]_vars

---------------------------------------------------------------------------
(* The raw-map widget: its pointer and wheel listeners.                    *)

MaxPointerEvents == 5
MaxZooms == 2

\* viewportContainer.offsetWidth, offsetHeight
Viewports == { <<512, 512>>, <<2048, 1024>> }

\* e.clientX - rect.left, e.clientY - rect.top: the corners of the viewport
PointerPts(r) == { [x |-> I(0), y |-> I(0)], [x |-> I(r.width), y |-> I(r.height)] }

\* e.wheelDelta
WheelDeltas == {120, -120}

\* the widget r2 the listener of the event kind leaves, with the history of
\* the event: r is the widget the event found
Handled(r, kind, r2, pointer, selected) ==
    [r2 EXCEPT !.ev = kind, !.pre = Snapshot(r), !.pointer = pointer,
               !.selected = selected, !.events = r.events + 1]

\* the mousewheel listener's new scale
zoomed(scale, wheelDelta) ==
    LET s == IF wheelDelta > 0 THEN RAdd(scale, RMul(Rat(2, 10), scale))
             ELSE RSub(scale, RMul(Rat(2, 10), scale))
    IN  IF RLt(s, I(1)) THEN I(1) ELSE s

\* the mousewheel listener
mousewheel ==
    /\ rawMap.events < MaxPointerEvents /\ rawMap.zooms < MaxZooms
    /\ \E pt \in PointerPts(rawMap), wheelDelta \in WheelDeltas :
         LET xpos == RDiv(pt.x, rawMap.scale)
             ypos == RDiv(pt.y, rawMap.scale)
             s == zoomed(rawMap.scale, wheelDelta)
             r2 == [rawMap EXCEPT
                      !.scale = s,
                      !.viewportPosition =
                          [x |-> RSub(rawMap.viewportPosition.x, RSub(RDiv(pt.x, s), xpos)),
                           y |-> RSub(rawMap.viewportPosition.y, RSub(RDiv(pt.y, s), ypos))],
                      !.zooms = rawMap.zooms + 1]
         IN  rawMap' = Handled(rawMap, "mousewheel", updateViewport(r2),
                               rawMap.pointer, FALSE)
    /\ UNCHANGED <<inited, width, height, box, T, pathScale, locations, lastX, lastY,
                   dragStart, lastScaleFactor, frame, layers, shown, ws, submitted, probe,
                   pinchBase, last, wheels, steps>>

\* the pointerdown listener
pointerdown ==
    /\ rawMap.events < MaxPointerEvents
    /\ \E pt \in PointerPts(rawMap) :
         rawMap' = Handled(rawMap, "pointerdown",
                           [rawMap EXCEPT !.start = [st |-> "set", x |-> pt.x, y |-> pt.y],
                                          !.moved = FALSE, !.downAt = pt],
                           "down", FALSE)
    /\ UNCHANGED <<inited, width, height, box, T, pathScale, locations, lastX, lastY,
                   dragStart, lastScaleFactor, frame, layers, shown, ws, submitted, probe,
                   pinchBase, last, wheels, steps>>

\* the limits the pointermove listener puts on one axis of viewportPosition
keptInView(v, size, scale) ==
    LET v1 == IF RLt(I(1024 - 10), v) THEN I(1024 - 10) ELSE v
        low == RAdd(RDiv(I(-1 * size), scale), I(10))
    IN  IF RLt(v1, low) THEN low ELSE v1

\* the pointermove listener
pointermove ==
    /\ rawMap.events < MaxPointerEvents
    /\ \E pt \in PointerPts(rawMap) :
         IF rawMap.start.st = "undefined"
         THEN rawMap' = Handled(rawMap, "pointermove", rawMap, rawMap.pointer, FALSE)
         ELSE LET xdiff == RSub(rawMap.start.x, pt.x)
                  ydiff == RSub(rawMap.start.y, pt.y)
                  x1 == RAdd(rawMap.viewportPosition.x, RDiv(xdiff, rawMap.scale))
                  y1 == RAdd(rawMap.viewportPosition.y, RDiv(ydiff, rawMap.scale))
                  r2 == [rawMap EXCEPT
                           !.moved = TRUE,
                           !.viewportPosition =
                               [x |-> keptInView(x1, rawMap.width, rawMap.scale),
                                y |-> keptInView(y1, rawMap.height, rawMap.scale)],
                           !.start = [st |-> "set", x |-> pt.x, y |-> pt.y]]
              IN  rawMap' = Handled(rawMap, "pointermove", updateViewport(r2),
                                    "dragging", FALSE)
    /\ UNCHANGED <<inited, width, height, box, T, pathScale, locations, lastX, lastY,
                   dragStart, lastScaleFactor, frame, layers, shown, ws, submitted, probe,
                   pinchBase, last, wheels, steps>>

\* mutant: the pointerup listener does not ask whether a pointer went down
clickedWhateverStart(moved, start) == ~moved

\* !moved && typeof start !== "undefined"
clicked(moved, start) == ~moved /\ start.st # "undefined"

\* the pointerup listener
pointerup ==
    /\ rawMap.events < MaxPointerEvents
    /\ LET sets == clicked(rawMap.moved, rawMap.start)
           point == transformViewportToMap(rawMap, rawMap.start)
           r2 == [rawMap EXCEPT
                    !.selectedPoint = IF sets THEN [st |-> "set", x |-> point.x, y |-> point.y]
                                      ELSE @,
                    !.toolbar = IF sets THEN TRUE ELSE @,
                    !.start = Unset("undefined")]
       IN  rawMap' = Handled(rawMap, "pointerup", updateViewport(r2), "up", sets)
    /\ UNCHANGED <<inited, width, height, box, T, pathScale, locations, lastX, lastY,
                   dragStart, lastScaleFactor, frame, layers, shown, ws, submitted, probe,
                   pinchBase, last, wheels, steps>>

InitPointer == \E v \in Viewports : Widgets(512, 512, <<>>, Map(v[1], v[2]))

NextPointer == mousewheel \/ pointerdown \/ pointermove \/ pointerup

SpecPointer == InitPointer /\ [][NextPointer]_vars

---------------------------------------------------------------------------
(* The pinch gesture on its own, its center moving.                        *)

NextPinch ==
    \/ initCanvas
    \/ startPinchAt(MovingCenters) \/ scalePinchAt(MovingCenters) \/ endPinch

SpecPinch == Init /\ [][NextPinch]_vars

SpecApi == InitApi /\ [][getLocations]_vars

SpecConv == InitConv /\ [][convert]_vars

---------------------------------------------------------------------------
(* Properties.                                                             *)

IsGoto(l) == l.type = "GotoPoint"

IsZone(l) == l.type = "Zone"

GotoIndices(locs) == { k \in 1..Len(locs) : IsGoto(locs[k]) }

ZoneIndices(locs) == { k \in 1..Len(locs) : IsZone(locs[k]) }

\* m is the floor of 50 * c: the one integer with m <= 50 c < m + 1
IsFloor50(m, c) ==
    /\ RLe(I(m), RMul(c, I(50)))
    /\ RLt(RMul(c, I(50)), I(m + 1))

\* the map-space point g lies under the screen point pt in the transform m
Under(m, g, pt) ==
    /\ RAdd(RMul(m.a, g.x), m.e) = pt.x
    /\ RAdd(RMul(m.d, g.y), m.f) = pt.y

\* C1: whatever events the widget has handled, the Locations list holds at
\* most one GotoPoint (next to any number of Zones).
C1_AtMostOneGotoPoint == Cardinality(GotoIndices(locations)) <= 1

C1_Witness ==
    /\ last.kind = "tap"
    /\ Len(locations) = 2
    /\ Cardinality(GotoIndices(locations)) = 1
    /\ Cardinality(ZoneIndices(locations)) = 1
    /\ GotoIndices(last.pre) # {}

\* C2: a tap that finds the list empty leaves exactly one GotoPoint, at the
\* map-space point under the tap; getLocations() on such a list returns that
\* point as {floor(50 x), floor(50 y)} and no zone; (100, 200) gives
\* {5000, 10000}.
C2_TapOnEmptyThenSubmit ==
    /\ (last.kind = "tap" /\ last.pre = <<>>) =>
          /\ Len(locations) = 1
          /\ IsGoto(locations[1])
          /\ Under(last.preT, locations[1], last.pt)
    /\ (last.kind = "getLocations" /\ Len(locations) = 1 /\ IsGoto(locations[1])) =>
          /\ submitted.zones = <<>>
          /\ Len(submitted.gotoPoints) = 1
          /\ DOMAIN submitted.gotoPoints[1] = {"x", "y"}
          /\ IsFloor50(submitted.gotoPoints[1].x, locations[1].x)
          /\ IsFloor50(submitted.gotoPoints[1].y, locations[1].y)
          /\ (locations[1].x = I(100) /\ locations[1].y = I(200)) =>
                submitted.gotoPoints = << [x |-> 5000, y |-> 10000] >>

C2_Witness ==
    /\ last.kind = "getLocations"
    /\ Len(locations) = 1
    /\ IsGoto(locations[1])
    /\ locations[1].x = I(100) /\ locations[1].y = I(200)
    /\ submitted.gotoPoints = << [x |-> 5000, y |-> 10000] >>

\* every handler the last tap called kept its overlay in the list
AllKept == \A j \in 1..Len(last.called) : last.called[j].has

\* the place of an overlay, its selection left aside
Place(l) == [l EXCEPT !.active = FALSE]

\* C3 as claimed: whenever a GotoPoint exists, a tap that no overlay stops
\* puts the GotoPoint at the tapped point and leaves the number of locations
\* as it was.  (Stated for the taps in which every handler keeps its
\* overlay, where the number of locations can change by the default action
\* alone.)
C3_AsClaimed ==
    (last.kind = "tap" /\ ~last.stopped /\ AllKept /\ GotoIndices(last.pre) # {}) =>
        /\ Len(locations) = Len(last.pre)
        /\ \E k \in GotoIndices(locations) : Under(last.preT, locations[k], last.pt)

\* C3 amended: a tap that no overlay stops and that finds the list made of
\* one GotoPoint alone replaces it by a GotoPoint at the tapped point, the
\* list keeping its one element; when the tap finds more than one location
\* (a Zone next to the GotoPoint) and every handler keeps its overlay, no
\* location is added, removed or moved.
C3_ReplaceOnlyWhenAlone ==
    /\ (last.kind = "tap" /\ ~last.stopped /\ Len(last.pre) = 1 /\ IsGoto(last.pre[1])) =>
          /\ Len(locations) = 1
          /\ IsGoto(locations[1])
          /\ Under(last.preT, locations[1], last.pt)
    /\ (last.kind = "tap" /\ ~last.stopped /\ AllKept /\ Len(last.pre) > 1) =>
          /\ Len(locations) = Len(last.pre)
          /\ \A k \in 1..Len(locations) : Place(locations[k]) = Place(last.pre[k])

C3_Witness ==
    /\ last.kind = "tap" /\ ~last.stopped
    /\ Len(last.pre) = 1 /\ IsGoto(last.pre[1])
    /\ Len(locations) = 1 /\ IsGoto(locations[1])
    /\ Place(locations[1]) # Place(last.pre[1])

\* C4: for every Zone of the list, whichever way round its corners are,
\* getLocations() emits [minX, minY, maxX, maxY] of the two converted
\* corners, so minX <= maxX and minY <= maxY.
C4_ZoneNormalized ==
    (last.kind = "getLocations") =>
        LET zs == Select(locations, "Zone")
        IN  /\ Len(submitted.zones) = Len(zs)
            /\ \A k \in 1..Len(zs) :
                 LET t == submitted.zones[k]
                     z == zs[k]
                 IN  /\ Len(t) = 4
                     /\ t[1] <= t[3] /\ t[2] <= t[4]
                     /\ \/ IsFloor50(t[1], z.x1) /\ IsFloor50(t[3], z.x2)
                        \/ IsFloor50(t[1], z.x2) /\ IsFloor50(t[3], z.x1)
                     /\ \/ IsFloor50(t[2], z.y1) /\ IsFloor50(t[4], z.y2)
                        \/ IsFloor50(t[2], z.y2) /\ IsFloor50(t[4], z.y1)

\* a zone held with x1 > x2 and y1 < y2, of negative and fractional corners
C4_Witness ==
    /\ last.kind = "getLocations"
    /\ Len(locations) = 1 /\ IsZone(locations[1])
    /\ locations[1].x1 = Rat(21, 2) /\ locations[1].x2 = Rat(-7, 3)
    /\ locations[1].y1 = Rat(1, 100) /\ locations[1].y2 = I(10)
    /\ submitted.zones = << <<-117, 0, 525, 500>> >>

RAbs(p) == IF p.n < 0 THEN RNeg(p) ELSE p

\* C5: for every coordinate c, negative and fractional ones too, the
\* millimeters convertToRealCoords gives, divided by 50, are within one unit
\* of c.
C5_RoundTripWithinOne ==
    probe.made => RLe(RAbs(RSub(Rat(probe.mm, 50), probe.c)), I(1))

C5_Witness ==
    /\ probe.made
    /\ probe.c = Rat(-7, 3)
    /\ probe.mm = -117

Dispatching == last.kind \in {"tap", "panmove"}

\* C6: in a tap or a pan-move the overlays are called in list order; the
\* first handler that answers stopPropagation:true is the last one called,
\* and the default action is then left out: the pan-move does not pan the
\* map, the tap neither creates nor replaces a GotoPoint.
C6_FirstStopEndsDispatch ==
    Dispatching =>
        /\ \A j, k \in 1..Len(last.called) : j < k => last.called[j].orig < last.called[k].orig
        /\ \A j \in 1..Len(last.called) : last.called[j].stop => j = Len(last.called)
        /\ last.stopped <=> (last.called # <<>> /\ last.called[Len(last.called)].stop)
        /\ (last.stopped /\ last.kind = "panmove") => T = last.preT
        /\ (last.stopped /\ last.kind = "tap") =>
              /\ Len(locations) <= Len(last.pre)
              /\ \A k \in GotoIndices(locations) :
                   \E j \in GotoIndices(last.pre) : Place(locations[k]) = Place(last.pre[j])

\* the first of two overlays takes a pan-move that would have panned the map
C6_Witness ==
    /\ last.kind = "panmove" /\ last.stopped
    /\ Len(last.pre) = 2 /\ Len(last.called) = 1
    /\ dragStart.st = "set"
    /\ ~Under(T, dragStart, last.pt)
    /\ locations[1] # last.pre[1]
    /\ locations[2] = last.pre[2]

\* the overlays the event found whose handler, if called, kept them, in order
Kept(pre, called) ==
    LET Gone(k) == \E j \in 1..Len(called) : called[j].orig = k /\ ~called[j].has
        RECURSIVE From(_)
        From(k) == IF k > Len(pre) THEN <<>>
                   ELSE IF Gone(k) THEN From(k + 1) ELSE <<pre[k]>> \o From(k + 1)
    IN  From(1)

Shape(l) == [type |-> l.type, active |-> l.active]

\* C7: in a tap or a pan-move, the overlays are called one after the other,
\* each once, none skipped, up to the first stop or the end of the list,
\* removals notwithstanding; an overlay whose handler gave no
\* updatedLocation is gone from the list, and the others keep their order.
C7_RemovalKeepsIteration ==
    Dispatching =>
        LET kept == Kept(last.pre, last.called)
            default == last.kind = "tap" /\ ~last.stopped
                         /\ (kept = <<>> \/ (Len(kept) = 1 /\ IsGoto(kept[1])))
        IN  /\ \A j \in 1..Len(last.called) : last.called[j].orig = j
            /\ (~last.stopped /\ (last.kind = "tap" \/ last.redraws = 1)) =>
                  Len(last.called) = Len(last.pre)
            /\ ~default =>
                  /\ Len(locations) = Len(kept)
                  /\ last.kind = "tap" =>
                       \A k \in 1..Len(kept) : Place(locations[k]) = Place(kept[k])
                  /\ last.kind = "panmove" =>
                       \A k \in 1..Len(kept) : Shape(locations[k]) = Shape(kept[k])

\* the first of two overlays is removed and the second is still called
C7_Witness ==
    /\ last.kind = "tap"
    /\ Len(last.pre) = 2
    /\ Len(last.called) = 2
    /\ ~last.called[1].has /\ ~last.called[1].stop
    /\ last.called[2].orig = 2
    /\ Len(locations) = 1
    /\ Place(locations[1]) = Place(last.pre[2])

\* C8: whatever the order of the gesture events, no handler fails: none
\* reads a coordinate of a drag-start point that was cleared or never set.
C8_NoHandlerFails == ~last.threw

\* a pinch gesture alone: pinch-start, pinch-moves up to the gesture scale
\* 2.0 about the center (512, 512), pinch-end
PinchOfTwoEnded ==
    /\ last.kind = "pinchend"
    /\ pinchBase.phase = "ended"
    /\ lastScaleFactor = I(2)
    /\ lastX = I(512) /\ lastY = I(512)

\* C9 as claimed: such a gesture makes one path-layer rescale call, at
\* pinch-end, and its factor is 2.0.
C9_AsClaimed ==
    /\ last.kind = "pinchmove" => last.rescaled = <<>>
    /\ PinchOfTwoEnded => last.rescaled = << I(2) >>

\* C9 amended: such a gesture makes one path-layer rescale call, at
\* pinch-end and none in the pinch-moves, and its factor is the global scale
\* factor at pinch-end, which is 2.0 times the global scale factor the
\* gesture began at (2.0 only for a gesture begun at global scale 1).
C9_RescaleOnceToGlobalScale ==
    /\ last.kind = "pinchmove" => last.rescaled = <<>>
    /\ PinchOfTwoEnded =>
          /\ last.rescaled = << RMul(I(2), pinchBase.scale) >>
          /\ T.a = RMul(I(2), pinchBase.scale)
          /\ pathScale = T.a
          /\ pinchBase.scale = I(1) => last.rescaled = << I(2) >>

\* the gesture begun at the global scale 1/2: the one call has the factor 1
C9_Witness ==
    /\ PinchOfTwoEnded
    /\ pinchBase.scale = Rat(1, 2)
    /\ last.rescaled = << I(1) >>

\* C10: _initCanvas sets the global scale on both axes, and the path
\* layer's scale, to min(w / W, h / H) for a bounding box of W by H in a
\* viewport of w by h; a box of 1024 by 1024 in 512 by 512 gives 0.5.
C10_InitialScale ==
    (last.kind = "init") =>
        /\ T.a = T.d
        /\ pathScale = T.a
        /\ last.rescaled = << T.a >>
        /\ RLe(RMul(T.a, I(box.W)), I(width))
        /\ RLe(RMul(T.a, I(box.H)), I(height))
        /\ RMul(T.a, I(box.W)) = I(width) \/ RMul(T.a, I(box.H)) = I(height)
        /\ (box.W = 1024 /\ box.H = 1024 /\ width = 512 /\ height = 512) => T.a = Rat(1, 2)

C10_Witness ==
    /\ last.kind = "init"
    /\ box = [left |-> 0, top |-> 0, W |-> 1024, H |-> 1024]
    /\ width = 512 /\ height = 512
    /\ T.a = Rat(1, 2) /\ T.d = Rat(1, 2) /\ pathScale = Rat(1, 2)

\* the pan-moves that reached the pan of the map: dragStart was set and no
\* overlay stopped the dispatch
Panned == last.kind = "panmove" /\ last.redraws = 1 /\ ~last.stopped

\* C13: a pan-move that no overlay consumes changes the global transform in
\* its translation alone (both scale factors stay as they were), and after it
\* the map-space point under the pointer is the recorded drag-start point;
\* this after every pan-move of a sequence.
C13_PanIsPureTranslation ==
    Panned =>
        /\ T.a = last.preT.a /\ T.d = last.preT.d
        /\ transformedPoint(T, last.pt.x, last.pt.y) = [x |-> dragStart.x, y |-> dragStart.y]

\* a second pan-move of one drag, at a scale other than 1, that moved the map
C13_Witness ==
    /\ Panned
    /\ T.a # I(1)
    /\ T # last.preT
    /\ last.preT # redraw(CtxTranslate(CtxScale(Identity, T.a, T.a), I(-box.left), I(-box.top)), T.a)

\* the scale _initCanvas gave the map it was started with
InitialScale ==
    initialScalingFactor(width, height,
        [minX |-> box.left, minY |-> box.top,
         maxX |-> box.left + box.W, maxY |-> box.top + box.H])

\* C14: whatever wheel and pinch events (of positive gesture scales) the
\* widget has handled, the global scale factor is not below a fixed floor.
\* No floor is configured in the widget; the formula takes the lowest floor
\* that its start allows, the smaller of 1.0 and the initial scale, and looks
\* at the scale a wheel event or a pinch-move of a started gesture leaves.
C14_ScaleNeverBelowFloor ==
    (last.kind = "wheel" \/ (last.kind = "pinchmove" /\ pinchBase.phase = "moved")) =>
        /\ RLe(RMin(I(1), InitialScale), T.a)
        /\ RLe(RMin(I(1), InitialScale), T.d)

\* the connection c has been open for the heartbeat window, and no message
\* has arrived on it
Silent(c) == ws.conn = c /\ ~ws.heard /\ ws.quiet >= HeartbeatSeconds

\* C11: every connection the widget opens, the first one or a later one, on
\* which no message arrives within 5 seconds is in the end closed, a new
\* connection taking its place.  (Stated for the connections that the bound
\* on the number of connections lets be followed by another.)
C11_SilentConnectionReplaced ==
    \A c \in 1..(MaxConnections - 1) : Silent(c) ~> (ws.conn # c)

\* C12: a non-empty message that cannot be applied (its text is no JSON, or
\* its image or path part makes a layer renderer fail) leaves the image
\* layer, the path layer and the displayed frame as they were before it,
\* that is as the last applied message left them.
C12_FailedMessageKeepsLastGood ==
    [][(ws'.msgs = ws.msgs + 1 /\ ws'.failed) => (layers' = layers /\ shown' = shown)]_vars

DecodedAsSent(padded) ==
    rawMap.made =>
        /\ \A recs \in RecordLists(MapRecords) :
              rawMap.map = MapStream(recs, padded) =>
                  /\ rawMap.put
                  /\ rawMap.pixels = recs
        /\ \A recs \in RecordLists(PathRecords) :
              (rawMap.hasPath /\ rawMap.put /\ rawMap.path = PathStream(recs, padded)) =>
                  /\ rawMap.stroked
                  /\ rawMap.line = recs

\* C16 as claimed: the decoder of Map.js takes the image stream in records
\* of 10 bytes (index of 4 bytes, most significant first, 3 bytes of
\* padding, r, g, b) and the path stream in pairs of 14 bytes (x of 4 bytes,
\* 3 of padding, y of 4 bytes, 3 of padding): of n whole records it decodes
\* n, each field at its offset, with no read past the end of the buffer.
C16_AsClaimed == DecodedAsSent(TRUE)

\* C16 amended: the records are of 7 bytes (index of 4 bytes, most
\* significant first, then r, g, b) and the pairs of 8 bytes (x of 4 bytes,
\* y of 4 bytes), with no padding: of n whole records the decoder decodes n,
\* each field at its offset, with no read past the end of the buffer.
C16_DecodesUnpaddedRecords == DecodedAsSent(FALSE)

\* two records of 7 bytes and two pairs of 8 bytes, decoded
C16_Witness ==
    /\ rawMap.made /\ rawMap.put /\ rawMap.stroked
    /\ Len(rawMap.map) = 14 /\ Len(rawMap.path) = 16
    /\ rawMap.pixels = << [pos |-> 66051, r |-> 4, g |-> 5, b |-> 6],
                          [pos |-> 1048575, r |-> 1, g |-> 0, b |-> 2] >>
    /\ rawMap.line = << [x |-> 1, y |-> 16777216], [x |-> 2048, y |-> 2052] >>

PanKinds == {"panstart", "panmove", "panend"}

PinchKinds == {"pinchstart", "pinchmove", "pinchend"}

\* C17: the pan gesture is idle, then dragging from a pan-start to the next
\* pan-end, then idle again; a pan-move that comes while it is idle (no
\* pan-start since the last pan-end) changes neither the Locations list nor
\* the global transform and calls no overlay.
C17_IdlePanMoveChangesNothing ==
    (last.kind = "panmove" /\ last.pan = "idle") =>
        /\ T = last.preT
        /\ locations = last.pre
        /\ last.called = <<>>
        /\ last.redraws = 0

\* C18: the pan and the pinch gestures do not touch each other's state: a
\* pinch event leaves the recorded drag-start point as it is, a pan event
\* leaves the pinch's last gesture scale as it is, and a pan-move of a pan
\* under way pans (or is taken by an overlay) whatever pinch events came
\* since the pan-start.
C18_PanAndPinchIndependent ==
    [][/\ (steps' = steps + 1 /\ last'.kind \in PinchKinds /\ ~last'.threw) =>
              dragStart' = dragStart
       /\ (steps' = steps + 1 /\ last'.kind \in PanKinds) =>
              lastScaleFactor' = lastScaleFactor
       /\ (steps' = steps + 1 /\ last'.kind = "panmove" /\ last.pan = "dragging") =>
              last'.redraws = 1]_vars

\* C19: in a pinch gesture begun by a pinch-start (no pan event and no
\* zooming wheel event coming between its events), after every pinch-move
\* the global scale factor is the scale at the pinch-start times the gesture
\* scale of that pinch-move, whatever gesture scales came before it, and the
\* map-space point captured at the pinch-start lies under the pinch center
\* of that pinch-move.
C19_PinchScaleIsBaseTimesGesture ==
    (last.kind = "pinchmove" /\ pinchBase.phase = "moved") =>
        /\ T.a = RMul(pinchBase.scale, lastScaleFactor)
        /\ T.d = RMul(pinchBase.scale, lastScaleFactor)
        /\ dragStart.st = "set"
        /\ Under(T, dragStart, last.pt)

\* a second pinch-move, of another gesture scale and another center than the
\* first, in a gesture begun at the scale 1/2
C19_Witness ==
    /\ last.kind = "pinchmove" /\ pinchBase.phase = "moved"
    /\ steps = 3
    /\ pinchBase.scale = Rat(1, 2)
    /\ lastScaleFactor = I(2)
    /\ T.a = I(1)
    /\ last.preT.a = Rat(1, 4)
    /\ last.pt = [x |-> I(256), y |-> I(128)]
    /\ ~Under(last.preT, dragStart, last.pt)

\* C20: a wheel event of normalized delta d # 0 at the pointer position p
\* multiplies both global scale factors by 1.1^d and leaves the map-space
\* point under p where it was; a wheel event of delta 0 changes nothing; in
\* both cases the drag-start point, the last pointer position, the last
\* gesture scale and the Locations list stay as they were.
C20_WheelZoomsAboutPointer ==
    [][(steps' = steps + 1 /\ last'.kind = "wheel") =>
          /\ dragStart' = dragStart
          /\ lastX' = lastX /\ lastY' = lastY
          /\ lastScaleFactor' = lastScaleFactor
          /\ locations' = locations
          /\ last'.delta # 0 =>
                /\ T'.a = RMul(T.a, RPow(Rat(11, 10), last'.delta))
                /\ T'.d = RMul(T.d, RPow(Rat(11, 10), last'.delta))
                /\ transformedPoint(T', last'.pt.x, last'.pt.y)
                     = transformedPoint(T, last'.pt.x, last'.pt.y)
          /\ last'.delta = 0 =>
                /\ T' = T /\ pathScale' = pathScale
                /\ layers' = layers /\ shown' = shown]_vars

\* a wheel event of delta -1 while a drag-start point is recorded, an
\* overlay on the map
C20_Witness ==
    /\ last.kind = "wheel" /\ last.delta = -1
    /\ T.a = RMul(last.preT.a, Rat(10, 11))
    /\ T.e # last.preT.e
    /\ dragStart.st = "set"
    /\ locations # <<>>

\* the gesture trackers: the closure variables the pan and pinch listeners share
Trackers == <<dragStart, lastX, lastY, lastScaleFactor>>

\* C21: updateMap, between gestures or between two events of a pan or a
\* pinch under way, puts the new frame into the image layer and the path
\* layer and changes nothing else: the global transform, the Locations list
\* with every overlay's active flag, the path layer's scale and the gesture
\* trackers (drag-start, last pointer, last gesture scale) are as before, so
\* that the next event of the gesture finds what it would have found without
\* the update; the new frame is on the canvas once _initCanvas has run.
C21_UpdateMapTouchesLayersOnly ==
    [][(steps' = steps + 1 /\ last'.kind = "updateMap") =>
          /\ layers' = [image |-> frame', path |-> frame']
          /\ frame' = frame + 1
          /\ T' = T /\ locations' = locations /\ pathScale' = pathScale
          /\ Trackers' = Trackers
          /\ pinchBase' = pinchBase /\ last'.pan = last.pan
          /\ inited => shown' = Composed(layers', T, pathScale, locations)]_vars

\* an update that arrived between the pinch-move and the next event of a
\* pinch that scaled the map, an active overlay on the map
C21_Witness ==
    /\ last.kind = "updateMap"
    /\ pinchBase.phase = "moved"
    /\ truthy(dragStart)
    /\ lastScaleFactor # I(1)
    /\ pathScale # T.a
    /\ \E k \in 1..Len(locations) : locations[k].active
    /\ layers = [image |-> 2, path |-> 2]
    /\ shown = Composed(layers, T, pathScale, locations)

\* the message just handled was the empty string
HeartbeatArrived == ws'.msgs = ws.msgs + 1 /\ ws'.data = ""

\* C22: an empty-string message does nothing to the map: it starts the
\* heartbeat timer anew at 5 seconds, the timer that was pending being
\* cancelled, so that at no time more than one timer is pending, and it
\* changes neither layer, nor the Locations list, nor the transform, and no
\* redraw is made.
C22_EmptyMessageOnlyResetsTimer ==
    /\ [](ws.timers <= 1)
    /\ [][HeartbeatArrived =>
             /\ ws'.timer = HeartbeatSeconds /\ ws'.timers = 1
             /\ ws'.conn = ws.conn
             /\ layers' = layers /\ frame' = frame
             /\ locations' = locations /\ T' = T /\ pathScale' = pathScale
             /\ shown' = shown /\ last'.redraws = 0]_vars

\* an empty-string message that found a timer pending, on a map that shows
\* a frame of an earlier message
C22_Witness ==
    /\ ws.data = "" /\ ws.cancelled
    /\ ws.timer = HeartbeatSeconds /\ ws.timers = 1
    /\ inited /\ layers.image > 1
    /\ shown = Composed(layers, T, pathScale, locations)

\* no pinch is under way: _initCanvas has just run, or a wheel event that
\* zooms has just been handled, or a pinch-end has just been handled, or a
\* pan-end has just ended a pinch that a pinch-start began and whose
\* pinch-moves were all handled without an exception
NoPinchInProgress ==
    \/ last.kind \in {"init", "pinchend"}
    \/ last.kind = "wheel" /\ last.delta # 0
    \/ last.kind = "panend" /\ pinchBase.phase = "panended"

\* C23: whenever no pinch is in progress (after _initCanvas, after a wheel
\* event, after the end of a gesture, be it a pinch-end or a pan-end that
\* ends it) the factor last given to the path layer's scale is the global
\* scale factor, on both axes.
C23_PathScaleIsGlobalScale ==
    NoPinchInProgress =>
        /\ pathScale = getScaleFactor2d(T)[1]
        /\ pathScale = getScaleFactor2d(T)[2]

\* the lowest viewportPosition at which 10 units of the map are in view
LowestInView(size, scale) == RAdd(RDiv(I(-size), scale), I(10))

\* C24: whatever pointerdown, pointermove, pointerup and mousewheel events
\* the raw-map widget has handled, the map is in view: on each axis
\* viewportPosition is at least -viewportSize / scale + 10 and at most
\* 1024 - 10, and scale is at least 1.0.
C24_MapStaysInView ==
    /\ RLe(LowestInView(rawMap.width, rawMap.scale), rawMap.viewportPosition.x)
    /\ RLe(rawMap.viewportPosition.x, I(1024 - 10))
    /\ RLe(LowestInView(rawMap.height, rawMap.scale), rawMap.viewportPosition.y)
    /\ RLe(rawMap.viewportPosition.y, I(1024 - 10))
    /\ RLe(I(1), rawMap.scale)

\* the map-space point under the viewport point pt at the given scale and
\* viewport position
MapPointUnder(pt, scale, viewportPosition) ==
    [st |-> "set",
     x |-> RAdd(viewportPosition.x, RDiv(pt.x, scale)),
     y |-> RAdd(viewportPosition.y, RDiv(pt.y, scale))]

\* C25: a pointerup sets selectedPoint if and only if the pointer went down
\* before it with no pointermove (and no other pointerup) since; the point
\* set is the map-space point under the position of that pointerdown, at the
\* scale and viewport position the pointerup finds.  A pointerup that ends a
\* drag, or one with no pointer down, leaves selectedPoint as it was; a
\* pointermove with no pointer down changes nothing.
C25_PointerUpSelectsClick ==
    /\ rawMap.ev = "pointerup" =>
          /\ rawMap.selected <=> rawMap.pre.pointer = "down"
          /\ rawMap.selected =>
                rawMap.selectedPoint =
                    MapPointUnder(rawMap.downAt, rawMap.pre.scale, rawMap.pre.viewportPosition)
          /\ ~rawMap.selected => rawMap.selectedPoint = rawMap.pre.selectedPoint
    /\ (rawMap.ev = "pointermove" /\ rawMap.pre.pointer = "up") =>
          Snapshot(rawMap) = rawMap.pre

\* a second click, after a wheel event that zoomed in, away from the
\* viewport's origin: the point selected before is replaced
C25_Witness ==
    /\ rawMap.ev = "pointerup" /\ rawMap.selected
    /\ rawMap.pre.pointer = "down"
    /\ rawMap.scale # I(1)
    /\ rawMap.downAt.x # I(0)
    /\ rawMap.pre.selectedPoint.st = "set"
    /\ rawMap.selectedPoint # rawMap.pre.selectedPoint
    /\ rawMap.selectedPoint.x # rawMap.viewportPosition.x
    /\ rawMap.view.selectedPoint = rawMap.selectedPoint

====
